---- MODULE Spec2Model ----
(***************************************************************************)
(* A model of the OOM arithmetic trainer: the daily challenge generator    *)
(* (challenge.rs), the answer parser (parser.rs), the order-of-magnitude   *)
(* scoring (scoring.rs) and the session handlers of the UI (app.rs).       *)
(*                                                                         *)
(* Numbers.  An f64 is modelled as a decimal floating-point value with     *)
(* three significant digits: [k |-> "fin", m |-> m, e |-> e] stands for    *)
(* m * 10^e with m = 0 or 100 <= |m| <= 999; every arithmetic operation    *)
(* rounds its exact result to nearest, ties to even, overflows to an       *)
(* infinity and underflows to zero, as the IEEE operations of the program  *)
(* do at their own precision.  "inf" and "nan" are the IEEE specials.      *)
(*                                                                         *)
(* Text.  A string is a sequence of one-character strings.                 *)
(***************************************************************************)
EXTENDS Integers, Sequences, FiniteSets, TLC

---------------------------------------------------------------------------
(* f64 *)

\* Decimal exponent of the largest finite f64 (f64::MAX = 1.797e308).
F64_MAX_EXP10 == 308
\* Decimal exponent below which an f64 rounds to zero (5e-324 is the least).
F64_MIN_EXP10 == -324

Abs(x) == IF x < 0 THEN -x ELSE x

RECURSIVE Pow10(_)
Pow10(n) == IF n <= 0 THEN 1 ELSE 10 * Pow10(n - 1)

RECURSIVE NumDigits(_)
NumDigits(n) == IF n < 10 THEN 1 ELSE 1 + NumDigits(n \div 10)

Fin(m, e) == [k |-> "fin", m |-> m, e |-> e]
Zero == Fin(0, 0)
Inf(sg) == [k |-> "inf", m |-> sg, e |-> 0]
NaN == [k |-> "nan", m |-> 0, e |-> 0]

\* a / p rounded to nearest, ties to even; sticky says that digits below a
\* were already dropped, so that an apparent tie lies above the half.
RoundDiv(a, p, sticky) ==
    LET q == a \div p
        r == a % p
    IN  IF 2 * r > p \/ (2 * r = p /\ (sticky \/ q % 2 = 1)) THEN q + 1 ELSE q

\* The f64 nearest to m * 10^e.
NormS(m, e, sticky) ==
    IF m = 0 THEN Zero
    ELSE LET a  == Abs(m)
             sg == IF m < 0 THEN -1 ELSE 1
             d  == NumDigits(a)
             r  == IF d > 3 THEN RoundDiv(a, Pow10(d - 3), sticky)
                            ELSE a * Pow10(3 - d)
             m2 == IF r = 1000 THEN 100 ELSE r
             e2 == IF r = 1000 THEN e + (d - 3) + 1 ELSE e + (d - 3)
         IN  IF e2 + 2 > F64_MAX_EXP10 THEN Inf(sg)
             ELSE IF e2 + 2 < F64_MIN_EXP10 THEN Zero
             ELSE Fin(sg * m2, e2)

Norm(m, e) == NormS(m, e, FALSE)

Sign(a) == IF a.m > 0 THEN 1 ELSE IF a.m < 0 THEN -1 ELSE 0

\* a * b
Mul(a, b) ==
    IF a.k = "nan" \/ b.k = "nan" THEN NaN
    ELSE IF a.k = "inf" \/ b.k = "inf"
         THEN IF Sign(a) * Sign(b) = 0 THEN NaN ELSE Inf(Sign(a) * Sign(b))
    ELSE Norm(a.m * b.m, a.e + b.e)

\* a / b
Div(a, b) ==
    IF a.k = "nan" \/ b.k = "nan" THEN NaN
    ELSE IF a.k = "inf"
         THEN IF b.k = "inf" THEN NaN
              ELSE Inf(IF Sign(b) < 0 THEN -Sign(a) ELSE Sign(a))
    ELSE IF b.k = "inf" THEN Zero
    ELSE IF b.m = 0 THEN (IF a.m = 0 THEN NaN ELSE Inf(Sign(a)))
    ELSE LET n  == Abs(a.m) * 100000
             q  == n \div Abs(b.m)
             sg == Sign(a) * Sign(b)
         IN  NormS(sg * q, a.e - b.e - 5, n % Abs(b.m) # 0)

\* a < b on finite values and infinities; every comparison with NaN is false.
LtOrd(a, b) ==
    LET ra == IF a.k = "inf" THEN [s |-> Sign(a), e |-> F64_MAX_EXP10 + 1, m |-> 0]
              ELSE [s |-> Sign(a), e |-> a.e, m |-> Abs(a.m)]
        rb == IF b.k = "inf" THEN [s |-> Sign(b), e |-> F64_MAX_EXP10 + 1, m |-> 0]
              ELSE [s |-> Sign(b), e |-> b.e, m |-> Abs(b.m)]
        MagLt(x, y) == x.e < y.e \/ (x.e = y.e /\ x.m < y.m)
    IN  IF ra.s # rb.s THEN ra.s < rb.s
        ELSE IF ra.s = 0 THEN FALSE
        ELSE IF ra.s > 0 THEN MagLt(ra, rb)
        ELSE MagLt(rb, ra)

Lt(a, b) == a.k # "nan" /\ b.k # "nan" /\ LtOrd(a, b)
Le(a, b) == a.k # "nan" /\ b.k # "nan" /\ ~LtOrd(b, a)
Ge(a, b) == Le(b, a)

One == Fin(100, -2)

\* f64::min and f64::max of finite values.
FMax(a, b) == IF Lt(a, b) THEN b ELSE a
FMin(a, b) == IF Lt(b, a) THEN b ELSE a

\* round(1000 * log10(m / 100)) for m = 100 .. 999: the decimal logarithm of
\* every mantissa, in thousandths.
Log10Table == <<
    0, 4, 9, 13, 17, 21, 25, 29, 33, 37, 41, 45, 49, 53, 57,
    61, 64, 68, 72, 76, 79, 83, 86, 90, 93, 97, 100, 104, 107, 111,
    114, 117, 121, 124, 127, 130, 134, 137, 140, 143, 146, 149, 152, 155, 158,
    161, 164, 167, 170, 173, 176, 179, 182, 185, 188, 190, 193, 196, 199, 201,
    204, 207, 210, 212, 215, 217, 220, 223, 225, 228, 230, 233, 236, 238, 241,
    243, 246, 248, 250, 253, 255, 258, 260, 262, 265, 267, 270, 272, 274, 276,
    279, 281, 283, 286, 288, 290, 292, 294, 297, 299, 301, 303, 305, 307, 310,
    312, 314, 316, 318, 320, 322, 324, 326, 328, 330, 332, 334, 336, 338, 340,
    342, 344, 346, 348, 350, 352, 354, 356, 358, 360, 362, 364, 365, 367, 369,
    371, 373, 375, 377, 378, 380, 382, 384, 386, 387, 389, 391, 393, 394, 396,
    398, 400, 401, 403, 405, 407, 408, 410, 412, 413, 415, 417, 418, 420, 422,
    423, 425, 427, 428, 430, 431, 433, 435, 436, 438, 439, 441, 442, 444, 446,
    447, 449, 450, 452, 453, 455, 456, 458, 459, 461, 462, 464, 465, 467, 468,
    470, 471, 473, 474, 476, 477, 479, 480, 481, 483, 484, 486, 487, 489, 490,
    491, 493, 494, 496, 497, 498, 500, 501, 502, 504, 505, 507, 508, 509, 511,
    512, 513, 515, 516, 517, 519, 520, 521, 522, 524, 525, 526, 528, 529, 530,
    531, 533, 534, 535, 537, 538, 539, 540, 542, 543, 544, 545, 547, 548, 549,
    550, 551, 553, 554, 555, 556, 558, 559, 560, 561, 562, 563, 565, 566, 567,
    568, 569, 571, 572, 573, 574, 575, 576, 577, 579, 580, 581, 582, 583, 584,
    585, 587, 588, 589, 590, 591, 592, 593, 594, 595, 597, 598, 599, 600, 601,
    602, 603, 604, 605, 606, 607, 609, 610, 611, 612, 613, 614, 615, 616, 617,
    618, 619, 620, 621, 622, 623, 624, 625, 626, 627, 628, 629, 630, 631, 632,
    633, 634, 635, 636, 637, 638, 639, 640, 641, 642, 643, 644, 645, 646, 647,
    648, 649, 650, 651, 652, 653, 654, 655, 656, 657, 658, 659, 660, 661, 662,
    663, 664, 665, 666, 667, 667, 668, 669, 670, 671, 672, 673, 674, 675, 676,
    677, 678, 679, 679, 680, 681, 682, 683, 684, 685, 686, 687, 688, 688, 689,
    690, 691, 692, 693, 694, 695, 695, 696, 697, 698, 699, 700, 701, 702, 702,
    703, 704, 705, 706, 707, 708, 708, 709, 710, 711, 712, 713, 713, 714, 715,
    716, 717, 718, 719, 719, 720, 721, 722, 723, 723, 724, 725, 726, 727, 728,
    728, 729, 730, 731, 732, 732, 733, 734, 735, 736, 736, 737, 738, 739, 740,
    740, 741, 742, 743, 744, 744, 745, 746, 747, 747, 748, 749, 750, 751, 751,
    752, 753, 754, 754, 755, 756, 757, 757, 758, 759, 760, 760, 761, 762, 763,
    763, 764, 765, 766, 766, 767, 768, 769, 769, 770, 771, 772, 772, 773, 774,
    775, 775, 776, 777, 777, 778, 779, 780, 780, 781, 782, 782, 783, 784, 785,
    785, 786, 787, 787, 788, 789, 790, 790, 791, 792, 792, 793, 794, 794, 795,
    796, 797, 797, 798, 799, 799, 800, 801, 801, 802, 803, 803, 804, 805, 806,
    806, 807, 808, 808, 809, 810, 810, 811, 812, 812, 813, 814, 814, 815, 816,
    816, 817, 818, 818, 819, 820, 820, 821, 822, 822, 823, 823, 824, 825, 825,
    826, 827, 827, 828, 829, 829, 830, 831, 831, 832, 833, 833, 834, 834, 835,
    836, 836, 837, 838, 838, 839, 839, 840, 841, 841, 842, 843, 843, 844, 844,
    845, 846, 846, 847, 848, 848, 849, 849, 850, 851, 851, 852, 852, 853, 854,
    854, 855, 856, 856, 857, 857, 858, 859, 859, 860, 860, 861, 862, 862, 863,
    863, 864, 865, 865, 866, 866, 867, 867, 868, 869, 869, 870, 870, 871, 872,
    872, 873, 873, 874, 874, 875, 876, 876, 877, 877, 878, 879, 879, 880, 880,
    881, 881, 882, 883, 883, 884, 884, 885, 885, 886, 886, 887, 888, 888, 889,
    889, 890, 890, 891, 892, 892, 893, 893, 894, 894, 895, 895, 896, 897, 897,
    898, 898, 899, 899, 900, 900, 901, 901, 902, 903, 903, 904, 904, 905, 905,
    906, 906, 907, 907, 908, 908, 909, 910, 910, 911, 911, 912, 912, 913, 913,
    914, 914, 915, 915, 916, 916, 917, 918, 918, 919, 919, 920, 920, 921, 921,
    922, 922, 923, 923, 924, 924, 925, 925, 926, 926, 927, 927, 928, 928, 929,
    929, 930, 930, 931, 931, 932, 932, 933, 933, 934, 934, 935, 936, 936, 937,
    937, 938, 938, 939, 939, 940, 940, 941, 941, 942, 942, 943, 943, 943, 944,
    944, 945, 945, 946, 946, 947, 947, 948, 948, 949, 949, 950, 950, 951, 951,
    952, 952, 953, 953, 954, 954, 955, 955, 956, 956, 957, 957, 958, 958, 959,
    959, 960, 960, 960, 961, 961, 962, 962, 963, 963, 964, 964, 965, 965, 966,
    966, 967, 967, 968, 968, 968, 969, 969, 970, 970, 971, 971, 972, 972, 973,
    973, 974, 974, 975, 975, 975, 976, 976, 977, 977, 978, 978, 979, 979, 980,
    980, 980, 981, 981, 982, 982, 983, 983, 984, 984, 985, 985, 985, 986, 986,
    987, 987, 988, 988, 989, 989, 989, 990, 990, 991, 991, 992, 992, 993, 993,
    993, 994, 994, 995, 995, 996, 996, 997, 997, 997, 998, 998, 999, 999, 1000
>>

---------------------------------------------------------------------------
(* scoring.rs.  A distance is an f64 in thousandths of an order of        *)
(* magnitude: [k |-> "fin", v |-> thousandths], or "inf" or "nan".         *)

\* f64::MAX in the unit of a distance.
F64_MAX == 2147483647

\* f64::log10: NaN below zero, -inf at zero.
Log10(a) ==
    IF a.k = "nan" THEN [k |-> "nan", v |-> 0]
    ELSE IF a.m < 0 THEN [k |-> "nan", v |-> 0]
    ELSE IF a.k = "inf" THEN [k |-> "inf", v |-> 1]
    ELSE IF a.m = 0 THEN [k |-> "inf", v |-> -1]
    ELSE [k |-> "fin", v |-> (a.e + 2) * 1000 + Log10Table[a.m - 99]]

\* (x - y).abs() on logarithms.
AbsDiff(x, y) ==
    IF x.k = "nan" \/ y.k = "nan" THEN [k |-> "nan", v |-> 0]
    ELSE IF x.k = "inf" /\ y.k = "inf"
         THEN (IF x.v = y.v THEN [k |-> "nan", v |-> 0] ELSE [k |-> "inf", v |-> 1])
    ELSE IF x.k = "inf" \/ y.k = "inf" THEN [k |-> "inf", v |-> 1]
    ELSE [k |-> "fin", v |-> Abs(x.v - y.v)]

\* distance <= threshold, the threshold in thousandths.
DistLe(d, t) == d.k = "fin" /\ d.v <= t

\* oom_distance with the guard written with && in place of ||.
oom_distance_both(user_answer, correct_answer) ==
    IF Le(user_answer, Zero) /\ Le(correct_answer, Zero)
    THEN [k |-> "fin", v |-> F64_MAX]
    ELSE AbsDiff(Log10(user_answer), Log10(correct_answer))

oom_distance(user_answer, correct_answer) ==
    IF Le(user_answer, Zero) \/ Le(correct_answer, Zero)
    THEN [k |-> "fin", v |-> F64_MAX]
    ELSE AbsDiff(Log10(user_answer), Log10(correct_answer))

\* evaluate with thresholds that exclude their upper bound.
evaluate_exclusive(user_answer, correct_answer) ==
    LET distance == oom_distance(user_answer, correct_answer)
    IN  IF distance.k = "fin" /\ distance.v < 100 THEN "Exact"
        ELSE IF distance.k = "fin" /\ distance.v < 500 THEN "Close"
        ELSE IF distance.k = "fin" /\ distance.v < 1000 THEN "Partial"
        ELSE "Wrong"

evaluate(user_answer, correct_answer) ==
    LET distance == oom_distance(user_answer, correct_answer)
    IN  IF DistLe(distance, 100) THEN "Exact"
        ELSE IF DistLe(distance, 500) THEN "Close"
        ELSE IF DistLe(distance, 1000) THEN "Partial"
        ELSE "Wrong"

points(r) ==
    CASE r = "Exact" -> 100
      [] r = "Close" -> 75
      [] r = "Partial" -> 25
      [] r = "Wrong" -> 0


---------------------------------------------------------------------------
(* Text: str and String as sequences of characters.                        *)

\* The character U+00D7, the multiplication sign.
TimesSign == "U+00D7"

Str(s) == [i \in 1 .. Len(s) |-> s[i]]

IsDigit(c) == c \in {"0", "1", "2", "3", "4", "5", "6", "7", "8", "9"}

DigitVal(c) ==
    CASE c = "0" -> 0 [] c = "1" -> 1 [] c = "2" -> 2 [] c = "3" -> 3
      [] c = "4" -> 4 [] c = "5" -> 5 [] c = "6" -> 6 [] c = "7" -> 7
      [] c = "8" -> 8 [] c = "9" -> 9

AllDigits(s) == \A i \in 1 .. Len(s) : IsDigit(s[i])

\* char::to_lowercase on the letters of the model's alphabet.
LowerChar(c) ==
    CASE c = "E" -> "e" [] c = "K" -> "k" [] c = "M" -> "m" [] c = "B" -> "b"
      [] c = "T" -> "t" [] c = "X" -> "x" [] c = "N" -> "n" [] c = "A" -> "a"
      [] c = "I" -> "i" [] c = "F" -> "f"
      [] OTHER -> c

to_lowercase(s) == [i \in 1 .. Len(s) |-> LowerChar(s[i])]

IsSpace(c) == c = " "

RECURSIVE trim_start(_)
trim_start(s) ==
    IF Len(s) > 0 /\ IsSpace(s[1]) THEN trim_start(Tail(s)) ELSE s

RECURSIVE trim_end(_)
trim_end(s) ==
    IF Len(s) > 0 /\ IsSpace(s[Len(s)])
    THEN trim_end(SubSeq(s, 1, Len(s) - 1)) ELSE s

trim(s) == trim_end(trim_start(s))

contains_char(s, c) == \E i \in 1 .. Len(s) : s[i] = c

ends_with(s, suffix) ==
    /\ Len(s) >= Len(suffix)
    /\ SubSeq(s, Len(s) - Len(suffix) + 1, Len(s)) = suffix

\* The least i >= from with pat at position i of s, or 0.
RECURSIVE find(_, _, _)
find(s, pat, from) ==
    IF from + Len(pat) - 1 > Len(s) THEN 0
    ELSE IF SubSeq(s, from, from + Len(pat) - 1) = pat THEN from
    ELSE find(s, pat, from + 1)

contains(s, pat) == find(s, pat, 1) > 0

\* str::replace of one character by a string.
RECURSIVE replace(_, _, _)
replace(s, c, by) ==
    IF Len(s) = 0 THEN << >>
    ELSE (IF s[1] = c THEN by ELSE << s[1] >>) \o replace(Tail(s), c, by)

\* str::split(pat).collect(): the parts between the occurrences of pat.
RECURSIVE split(_, _)
split(s, pat) ==
    LET i == find(s, pat, 1)
    IN  IF i = 0 THEN << s >>
        ELSE << SubSeq(s, 1, i - 1) >>
                 \o split(SubSeq(s, i + Len(pat), Len(s)), pat)

---------------------------------------------------------------------------
(* str::parse::<f64>() and str::parse::<i32>().  An Option<f64> is         *)
(* [some |-> TRUE, v |-> value] or None.                                   *)

Some(v) == [some |-> TRUE, v |-> v]
None == [some |-> FALSE, v |-> Zero]

\* The digits of s as m * 10^e: the leading eight digits are kept exactly,
\* sticky says that a nonzero digit was dropped after them.
RECURSIVE DigitsAcc(_, _, _, _, _)
DigitsAcc(s, i, m, e, sticky) ==
    IF i > Len(s) THEN [m |-> m, e |-> e, sticky |-> sticky]
    ELSE IF m < 10000000
         THEN DigitsAcc(s, i + 1, m * 10 + DigitVal(s[i]), e, sticky)
    ELSE DigitsAcc(s, i + 1, m, e + 1, sticky \/ s[i] # "0")

\* The value of a digit string as an i32; ok is false on overflow.
RECURSIVE I32Acc(_, _, _)
I32Acc(s, i, v) ==
    IF i > Len(s) THEN [ok |-> TRUE, v |-> v]
    ELSE IF v > 214748364 \/ (v = 214748364 /\ DigitVal(s[i]) > 7)
         THEN [ok |-> FALSE, v |-> 0]
    ELSE I32Acc(s, i + 1, v * 10 + DigitVal(s[i]))

Unsigned(s) == IF Len(s) > 0 /\ s[1] \in {"+", "-"} THEN Tail(s) ELSE s
IsNeg(s) == Len(s) > 0 /\ s[1] = "-"

\* s.parse::<i32>().ok()
I32FromStr(s) ==
    LET d == Unsigned(s)
        a == I32Acc(d, 1, 0)
    IN  IF Len(d) = 0 \/ ~AllDigits(d) \/ ~a.ok
        THEN [ok |-> FALSE, v |-> 0]
        ELSE [ok |-> TRUE, v |-> IF IsNeg(s) THEN -a.v ELSE a.v]

\* The exponent of a float literal: like an i32, but a value too large
\* saturates, which gives an infinity or a zero all the same.
ExpFromStr(s) ==
    LET d == Unsigned(s)
        a == I32Acc(d, 1, 0)
        v == IF a.ok /\ a.v < 100000 THEN a.v ELSE 100000
    IN  IF IsNeg(s) THEN -v ELSE v

\* s.parse::<f64>().ok(): [+-] then inf, infinity or nan in any case, or
\* digits with at most one point and at least one digit, then an optional
\* exponent e[+-]digits; nothing else, no blanks.
F64FromStr(s) ==
    LET body == Unsigned(s)
        sg   == IF IsNeg(s) THEN -1 ELSE 1
        low  == to_lowercase(body)
        ePos == LET i == find(low, << "e" >>, 1) IN i
        mant == IF ePos = 0 THEN body ELSE SubSeq(body, 1, ePos - 1)
        expS == IF ePos = 0 THEN << >> ELSE SubSeq(body, ePos + 1, Len(body))
        dot  == find(mant, << "." >>, 1)
        ip   == IF dot = 0 THEN mant ELSE SubSeq(mant, 1, dot - 1)
        fp   == IF dot = 0 THEN << >> ELSE SubSeq(mant, dot + 1, Len(mant))
        acc  == DigitsAcc(ip \o fp, 1, 0, 0, FALSE)
        ex   == IF ePos = 0 THEN 0 ELSE ExpFromStr(expS)
    IN  IF low \in {<< "i", "n", "f" >>,
                    << "i", "n", "f", "i", "n", "i", "t", "y" >>}
        THEN Some(Inf(sg))
        ELSE IF low = << "n", "a", "n" >> THEN Some(NaN)
        ELSE IF /\ AllDigits(ip) /\ AllDigits(fp) /\ Len(ip) + Len(fp) >= 1
                /\ \/ ePos = 0
                   \/ (Len(Unsigned(expS)) >= 1 /\ AllDigits(Unsigned(expS)))
        THEN Some(NormS(sg * acc.m, acc.e - Len(fp) + ex, acc.sticky))
        ELSE None

\* 10_f64.powi(n)
Powi10(n) == Norm(100, n - 2)

---------------------------------------------------------------------------
(* parser.rs *)

parse_scientific(input) ==
    IF contains_char(input, "e") THEN F64FromStr(input) ELSE None

\* The table of parse_word_suffix, in its order.
WordSuffixes == <<
    [suffix |-> Str(<< "t", "r", "i", "l", "l", "i", "o", "n" >>), multiplier |-> Fin(100, 10)],
    [suffix |-> Str(<< "b", "i", "l", "l", "i", "o", "n" >>), multiplier |-> Fin(100, 7)],
    [suffix |-> Str(<< "m", "i", "l", "l", "i", "o", "n" >>), multiplier |-> Fin(100, 4)],
    [suffix |-> Str(<< "t", "h", "o", "u", "s", "a", "n", "d" >>), multiplier |-> Fin(100, 1)] >>

\* The loop of parse_word_suffix from entry i on.
RECURSIVE word_suffix_from(_, _)
word_suffix_from(input, i) ==
    IF i > Len(WordSuffixes) THEN None
    ELSE IF ends_with(input, WordSuffixes[i].suffix)
         THEN LET num_part == trim(SubSeq(input, 1,
                                  Len(input) - Len(WordSuffixes[i].suffix)))
                  num == F64FromStr(num_part)
              IN  IF num.some THEN Some(Mul(num.v, WordSuffixes[i].multiplier))
                  ELSE None
    ELSE word_suffix_from(input, i + 1)

parse_word_suffix(input) == word_suffix_from(input, 1)

IsLetterSuffix(c) == c \in {"t", "b", "m", "k"}

LetterMultiplier(c) ==
    CASE c = "t" -> Fin(100, 10)
      [] c = "b" -> Fin(100, 7)
      [] c = "m" -> Fin(100, 4)
      [] c = "k" -> Fin(100, 1)

parse_letter_suffix(input) ==
    IF Len(input) = 0 THEN None
    ELSE IF ~IsLetterSuffix(input[Len(input)]) THEN None
    ELSE LET num_part == trim(SubSeq(input, 1, Len(input) - 1))
             num == F64FromStr(num_part)
         IN  IF Len(num_part) = 0 THEN None
             ELSE IF num.some
                  THEN Some(Mul(num.v, LetterMultiplier(input[Len(input)])))
             ELSE None

CaretMark == << "x", "1", "0", "^" >>

\* The normalisation of parse_caret_notation: the multiplication sign and
\* the asterisk become x, blanks are dropped.
caret_normalize(input) ==
    replace(replace(replace(input, TimesSign, << "x" >>), "*", << "x" >>),
            " ", << >>)

parse_caret_notation(input0) ==
    LET input == caret_normalize(input0)
        parts == split(input, CaretMark)
    IN  IF ~contains(input, CaretMark) THEN None
        ELSE IF Len(parts) # 2 THEN None
        ELSE LET mantissa == F64FromStr(parts[1])
                 exponent == I32FromStr(parts[2])
             IN  IF ~mantissa.some THEN None
                 ELSE IF ~exponent.ok THEN None
                 ELSE Some(Mul(mantissa.v, Powi10(exponent.v)))

\* A plain-number rule that drops every character that cannot be part of a
\* number before it parses.
RECURSIVE keep_numeric(_)
keep_numeric(s) ==
    IF Len(s) = 0 THEN << >>
    ELSE (IF IsDigit(s[1]) \/ s[1] \in {".", "-", "+"} THEN << s[1] >> ELSE << >>)
             \o keep_numeric(Tail(s))

parse_plain_lenient(input) == F64FromStr(keep_numeric(input))

\* input.replace(",", "").replace(" ", "").parse().ok()
parse_plain(input) ==
    F64FromStr(replace(replace(input, ",", << >>), " ", << >>))

\* parse_answer that gives up when the text holds an e and is no float.
parse_answer_no_fallthrough(input0) ==
    LET input == to_lowercase(trim(input0))
    IN  IF Len(input) = 0 THEN None
        ELSE IF contains_char(input, "e") THEN F64FromStr(input)
        ELSE IF parse_word_suffix(input).some THEN parse_word_suffix(input)
        ELSE IF parse_letter_suffix(input).some THEN parse_letter_suffix(input)
        ELSE IF parse_caret_notation(input).some THEN parse_caret_notation(input)
        ELSE parse_plain(input)

parse_answer(input0) ==
    LET input == to_lowercase(trim(input0))
    IN  IF Len(input) = 0 THEN None
        ELSE IF parse_scientific(input).some THEN parse_scientific(input)
        ELSE IF parse_word_suffix(input).some THEN parse_word_suffix(input)
        ELSE IF parse_letter_suffix(input).some THEN parse_letter_suffix(input)
        ELSE IF parse_caret_notation(input).some THEN parse_caret_notation(input)
        ELSE parse_plain(input)


---------------------------------------------------------------------------
(* challenge.rs.  The random stream of ChaCha8Rng is modelled by a 16-bit   *)
(* linear congruential generator whose draws are its high 8 bits: what the *)
(* program relies on is a stream that is a function of the seed alone.     *)

RngModulus == 65536
RngMultiplier == 25173
RngIncrement == 13849
DrawRange == 256

\* ChaCha8Rng::seed_from_u64
seed_from_u64(seed) == seed % RngModulus

\* The generator after one draw.
RngStep(rng) == (RngMultiplier * rng + RngIncrement) % RngModulus
\* The draw itself, in 0 .. DrawRange - 1.
RngOut(rng) == RngStep(rng) \div (RngModulus \div DrawRange)

\* rng.gen_range(lo ..= hi) on integers
gen_range_int(rng, lo, hi) ==
    [val |-> lo + (RngOut(rng) * (hi - lo + 1)) \div DrawRange, rng |-> RngStep(rng)]

\* rng.gen_range(1.0 .. 10.0) in the place of rng.gen_range(1.1 .. 9.9).
gen_range_mantissa_wide(rng) ==
    [val |-> Fin(100 + (RngOut(rng) * (1000 - 100)) \div DrawRange, -2),
     rng |-> RngStep(rng)]

\* rng.gen_range(1.1 .. 9.9): a real in [1.10, 9.90), in hundredths.
gen_range_mantissa(rng) ==
    [val |-> Fin(110 + (RngOut(rng) * (990 - 110)) \div DrawRange, -2),
     rng |-> RngStep(rng)]

\* rng.gen_bool(0.3)
gen_bool(rng) ==
    [val |-> RngOut(rng) * 10 < 3 * DrawRange, rng |-> RngStep(rng)]

\* f64::round: to the nearest integer, halves away from zero.
Round(a) ==
    IF a.k # "fin" \/ a.e >= 0 THEN a
    ELSE IF a.e < -3 THEN Zero
    ELSE LET p == Pow10(-a.e)
             q == Abs(a.m) \div p
             r == Abs(a.m) % p
             n == IF 2 * r >= p THEN q + 1 ELSE q
         IN  Norm(Sign(a) * n, 0)

Ten == Fin(100, -1)

\* generate_number without the rounding of the mantissa.
generate_number_unrounded(rng0) ==
    LET exp      == gen_range_int(rng0, 3, 9)
        mantissa == gen_range_mantissa(exp.rng)
    IN  [val |-> Mul(mantissa.val, Powi10(exp.val)), rng |-> mantissa.rng]

generate_number(rng0) ==
    LET exp      == gen_range_int(rng0, 3, 9)
        mantissa == gen_range_mantissa(exp.rng)
        rounded  == Div(Round(Mul(mantissa.val, Ten)), Ten)
    IN  [val |-> Mul(rounded, Powi10(exp.val)), rng |-> mantissa.rng]

\* generate_single that draws is_division before the two operands.
generate_single_division_first(rng0) ==
    LET is_division == gen_bool(rng0)
        num1 == generate_number(is_division.rng)
        num2 == generate_number(num1.rng)
    IN  [val |-> [num1 |-> num1.val, num2 |-> num2.val,
                  is_division |-> is_division.val],
         rng |-> num2.rng]

generate_single(rng0) ==
    LET num1 == generate_number(rng0)
        num2 == generate_number(num1.rng)
        is_division == gen_bool(num2.rng)
    IN  [val |-> [num1 |-> num1.val, num2 |-> num2.val,
                  is_division |-> is_division.val],
         rng |-> is_division.rng]

\* The loop of generate_challenges over 0..=count.
RECURSIVE generate_from_inclusive(_, _)
generate_from_inclusive(rng, count) ==
    IF count < 0 THEN << >>
    ELSE LET c == generate_single(rng)
         IN  << c.val >> \o generate_from_inclusive(c.rng, count - 1)

\* (0..count).map(|_| generate_single(&mut rng)).collect(), from rng on.
RECURSIVE generate_from(_, _)
generate_from(rng, count) ==
    IF count <= 0 THEN << >>
    ELSE LET c == generate_single(rng)
         IN  << c.val >> \o generate_from(c.rng, count - 1)

generate_challenges(seed, count) == generate_from(seed_from_u64(seed), count)

\* Challenge::answer
answer(challenge) ==
    IF challenge.is_division THEN Div(challenge.num1, challenge.num2)
    ELSE Mul(challenge.num1, challenge.num2)

\* The decimal digits of n >= 0, as format!("{n}") writes them.
RECURSIVE IntToStr(_)
IntToStr(n) ==
    LET d == << "0", "1", "2", "3", "4", "5", "6", "7", "8", "9" >>[(n % 10) + 1]
    IN  IF n < 10 THEN << d >> ELSE IntToStr(n \div 10) \o << d >>

\* format!("{n:02}")
Pad2(n) == IF n < 10 THEN << "0" >> \o IntToStr(n) ELSE IntToStr(n)

\* The code of a character of a date string.
CharCode(c) == IF c = "-" THEN 45 ELSE 48 + DigitVal(c)

\* DefaultHasher over the bytes of the string and the 0xff that str::hash
\* appends; modelled by a polynomial hash of HashBits bits.
HashModulus == 65536
RECURSIVE HashBytes(_, _, _)
HashBytes(s, i, h) ==
    IF i > Len(s) THEN (h * 31 + 255) % HashModulus
    ELSE HashBytes(s, i + 1, (h * 31 + CharCode(s[i])) % HashModulus)

\* A date string that also holds the hour.
date_str_with_hour(now) ==
    IntToStr(now.year) \o << "-" >> \o Pad2(now.month + 1) \o << "-" >>
        \o Pad2(now.day) \o << "-" >> \o Pad2(now.hour)

\* The date string of get_daily_seed, from what js_sys::Date::new_0() holds:
\* the local time now, its month counted from 0.
\* The date string with the month as Date::get_month gives it, from 0.
date_str_month_from_zero(now) ==
    IntToStr(now.year) \o << "-" >> \o Pad2(now.month)
        \o << "-" >> \o Pad2(now.day)

date_str(now) ==
    IntToStr(now.year) \o << "-" >> \o Pad2(now.month + 1) \o << "-" >>
        \o Pad2(now.day)

get_daily_seed(now) == HashBytes(date_str(now), 1, 0)


---------------------------------------------------------------------------
(* app.rs *)

PROBLEMS_PER_DAY == 5

\* The multipliers of the eight magnitude buttons.
Multipliers ==
    { Fin(100, 1), Fin(100, 0), Fin(100, -1), Fin(200, -2),
      Fin(100, -5), Fin(100, -4), Fin(100, -3), Fin(500, -3) }

\* The upper clamp of adjust_magnitude, 1e15.
MaxAnswerValue == Fin(100, 13)

\* The table MAGNITUDES, in the order format_answer_display walks it.
MagnitudesRev == <<
    [mag |-> Fin(100, 10), suffix |-> "T"],
    [mag |-> Fin(100, 7), suffix |-> "B"],
    [mag |-> Fin(100, 4), suffix |-> "M"],
    [mag |-> Fin(100, 1), suffix |-> "K"] >>

\* The digits of n, with zeros in front up to the given width.
RECURSIVE ZeroPad(_, _)
ZeroPad(s, width) == IF Len(s) >= width THEN s ELSE ZeroPad(<< "0" >> \o s, width)

\* format!("{:.decimals}", a) of a value that is not negative.
FormatFixed(a, decimals) ==
    IF a.k = "nan" THEN << "N", "a", "N" >>
    ELSE IF a.k = "inf" THEN << "i", "n", "f" >>
    ELSE LET sh == a.e + decimals
             n  == IF sh >= 0 THEN a.m * Pow10(sh)
                   ELSE RoundDiv(a.m, Pow10(-sh), FALSE)
             p  == Pow10(decimals)
         IN  IntToStr(n \div p)
                 \o (IF decimals = 0 THEN << >>
                     ELSE << "." >> \o ZeroPad(IntToStr(n % p), decimals))

\* The loop of format_answer_display from entry i on.
RECURSIVE display_from(_, _)
display_from(value, i) ==
    IF i > Len(MagnitudesRev) THEN FormatFixed(value, 0)
    ELSE IF Ge(value, MagnitudesRev[i].mag)
         THEN LET scaled == Div(value, MagnitudesRev[i].mag)
              IN  IF Ge(scaled, Fin(100, 0))
                  THEN FormatFixed(scaled, 0) \o << MagnitudesRev[i].suffix >>
                  ELSE IF Ge(scaled, Fin(100, -1))
                  THEN FormatFixed(scaled, 1) \o << MagnitudesRev[i].suffix >>
                  ELSE FormatFixed(scaled, 2) \o << MagnitudesRev[i].suffix >>
    ELSE display_from(value, i + 1)

format_answer_display(value) ==
    IF Lt(value, One) THEN << "0" >> ELSE display_from(value, 1)

---------------------------------------------------------------------------
(* State *)

VARIABLES
    \* the signals and the stored value of App
    challenges, current_index, user_input, answer_value, submitted,
    score_results, input_mode,
    \* the handler that ran last, and the input events so far
    last_event, presses, edits,
    \* one call of parse_answer
    p_input, p_result, p_pc,
    \* one call of oom_distance and evaluate
    s_user, s_correct, s_distance, s_result, s_pc,
    \* one call of generate_challenges
    g_seed, g_count, g_out, g_pc,
    \* two page loads side by side: the local time of each, and what its
    \* last load computed, at what time and for what count
    d_now, d_loaded, d_at, d_count, d_seed, d_out

app_vars == << challenges, current_index, user_input, answer_value, submitted,
               score_results, input_mode, last_event, presses, edits >>
parse_vars == << p_input, p_result, p_pc >>
score_vars == << s_user, s_correct, s_distance, s_result, s_pc >>
gen_vars == << g_seed, g_count, g_out, g_pc >>
day_vars == << d_now, d_loaded, d_at, d_count, d_seed, d_out >>
vars == << app_vars, parse_vars, score_vars, gen_vars, day_vars >>

---------------------------------------------------------------------------
(* Bounds and input sets *)

\* Pieces of text an input is put together from.
Pieces ==
    { << "4" >>, << "0" >>, << "." >>, << "," >>, << " " >>, << "-" >>,
      << "e" >>, << "4", "E", "1" >>, << "k" >>, << "M" >>,
      << "a" >>, << "n", "a", "n" >>, << "i", "n", "f" >>,
      << "t", "h", "o", "u", "s", "a", "n", "d" >>,
      << "t", "r", "i", "l", "l", "i", "o", "n" >>,
      << "x", "1", "0", "^" >>, << "*", " ", "1", "0", "^" >>,
      << TimesSign, "1", "0", "^" >> }

\* An input of the parser is at most MaxPieces pieces long.
MaxPieces == 3

RECURSIVE TextsOf(_)
TextsOf(n) ==
    IF n = 0 THEN { << >> }
    ELSE LET shorter == TextsOf(n - 1)
         IN  shorter \cup { t \o p : t \in shorter, p \in Pieces }

ParserInputs == TextsOf(MaxPieces)


\* The values handed to oom_distance and evaluate: every mantissa, over
\* MaxScoreExp + 1 decades, and the values that are not positive numbers.
MaxScoreExp == 2

Specials == { Zero, Fin(-100, 0), Fin(-250, 1), NaN, Inf(1), Inf(-1) }

UserValues ==
    { Fin(m, e) : m \in 100 .. 999, e \in 0 .. MaxScoreExp } \cup Specials

CorrectValues ==
    { Fin(100, 1), Fin(250, 1), Fin(999, 0), Fin(316, 2) } \cup Specials

\* The seeds and counts handed to generate_challenges.
MaxSeed == 255
MaxCount == 5

\* The local times of a page load: two days of each of two months, early
\* and late in the day.
Clocks ==
    [year : {2025}, month : {0, 11}, day : {9, 10}, hour : {0, 23}]

\* The two page loads.
Loads == {1, 2}
\* The counts they ask for.
MaxLoadCount == 2

\* The texts typed into the input field of a session.
SessionTexts == { << "a" >>, << "0" >>, << "4", "e", "9" >> }

\* The days a session is played on.
SessionClocks == { c \in Clocks : c.hour = 0 /\ c.day = 9 /\ c.month = 0 }

\* The button presses and the input events of one session.
MaxPresses == 3
MaxEdits == 2

---------------------------------------------------------------------------
(* The idle state of each part *)

IdleApp ==
    /\ challenges = << >>
    /\ current_index = 0
    /\ user_input = << >>
    /\ answer_value = Zero
    /\ submitted = FALSE
    /\ score_results = << >>
    /\ input_mode = TRUE
    /\ last_event = "none"
    /\ presses = 0
    /\ edits = 0

IdleParse == p_input = << >> /\ p_result = None /\ p_pc = "idle"

IdleScore ==
    /\ s_user = Zero
    /\ s_correct = Zero
    /\ s_distance = [k |-> "fin", v |-> 0]
    /\ s_result = "none"
    /\ s_pc = "idle"

IdleGen == g_seed = 0 /\ g_count = 0 /\ g_out = << >> /\ g_pc = "idle"

NoClock == [year |-> 0, month |-> 0, day |-> 0, hour |-> 0]

IdleDay ==
    /\ d_now = [i \in Loads |-> NoClock]
    /\ d_loaded = [i \in Loads |-> FALSE]
    /\ d_at = [i \in Loads |-> NoClock]
    /\ d_count = [i \in Loads |-> 0]
    /\ d_seed = [i \in Loads |-> 0]
    /\ d_out = [i \in Loads |-> << >>]

---------------------------------------------------------------------------
(* parse_answer on an input *)

InitParse ==
    /\ p_input \in ParserInputs
    /\ p_result = None
    /\ p_pc = "ready"
    /\ IdleApp /\ IdleScore /\ IdleGen /\ IdleDay

ParseAnswer ==
    /\ p_pc = "ready"
    /\ p_result' = parse_answer(p_input)
    /\ p_pc' = "done"
    /\ UNCHANGED << p_input, app_vars, score_vars, gen_vars, day_vars >>

NextParse == ParseAnswer

SpecParse == InitParse /\ [][NextParse]_vars

---------------------------------------------------------------------------
(* oom_distance and evaluate on a pair of values *)

InitScore ==
    /\ s_user \in UserValues
    /\ s_correct \in CorrectValues
    /\ s_distance = [k |-> "fin", v |-> 0]
    /\ s_result = "none"
    /\ s_pc = "ready"
    /\ IdleApp /\ IdleParse /\ IdleGen /\ IdleDay

OomDistance ==
    /\ s_pc = "ready"
    /\ s_distance' = oom_distance(s_user, s_correct)
    /\ s_pc' = "distance"
    /\ UNCHANGED << s_user, s_correct, s_result,
                    app_vars, parse_vars, gen_vars, day_vars >>

Evaluate ==
    /\ s_pc = "distance"
    /\ s_result' = evaluate(s_user, s_correct)
    /\ s_pc' = "done"
    /\ UNCHANGED << s_user, s_correct, s_distance,
                    app_vars, parse_vars, gen_vars, day_vars >>

NextScore == OomDistance \/ Evaluate

SpecScore == InitScore /\ [][NextScore]_vars

---------------------------------------------------------------------------
(* generate_challenges on a seed and a count *)

InitGen ==
    /\ g_seed \in 0 .. MaxSeed
    /\ g_count \in 0 .. MaxCount
    /\ g_out = << >>
    /\ g_pc = "ready"
    /\ IdleApp /\ IdleParse /\ IdleScore /\ IdleDay

GenerateChallenges ==
    /\ g_pc = "ready"
    /\ g_out' = generate_challenges(g_seed, g_count)
    /\ g_pc' = "done"
    /\ UNCHANGED << g_seed, g_count, app_vars, parse_vars, score_vars, day_vars >>

NextGen == GenerateChallenges

SpecGen == InitGen /\ [][NextGen]_vars

---------------------------------------------------------------------------
(* Two page loads side by side: each reads its own clock, derives the      *)
(* seed and generates its challenges; time passes between loads.           *)

ClockKey(c) == ((c.year * 12 + c.month) * 31 + c.day) * 24 + c.hour

InitDay ==
    /\ d_now \in [Loads -> Clocks]
    /\ d_loaded = [i \in Loads |-> FALSE]
    /\ d_at = [i \in Loads |-> NoClock]
    /\ d_count = [i \in Loads |-> 0]
    /\ d_seed = [i \in Loads |-> 0]
    /\ d_out = [i \in Loads |-> << >>]
    /\ IdleApp /\ IdleParse /\ IdleScore /\ IdleGen

\* Time passes on the machine of load i.
Tick(i) ==
    /\ \E c \in Clocks :
          /\ ClockKey(c) > ClockKey(d_now[i])
          /\ d_now' = [d_now EXCEPT ![i] = c]
    /\ UNCHANGED << d_loaded, d_at, d_count, d_seed, d_out,
                    app_vars, parse_vars, score_vars, gen_vars >>

\* generate_challenges(get_daily_seed(), count) on the machine of load i.
LoadDay(i, count) ==
    LET seed == get_daily_seed(d_now[i])
    IN  /\ d_loaded' = [d_loaded EXCEPT ![i] = TRUE]
        /\ d_at' = [d_at EXCEPT ![i] = d_now[i]]
        /\ d_count' = [d_count EXCEPT ![i] = count]
        /\ d_seed' = [d_seed EXCEPT ![i] = seed]
        /\ d_out' = [d_out EXCEPT ![i] = generate_challenges(seed, count)]
        /\ UNCHANGED << d_now, app_vars, parse_vars, score_vars, gen_vars >>

NextDay ==
    \/ \E i \in Loads : Tick(i)
    \/ \E i \in Loads, count \in 0 .. MaxLoadCount : LoadDay(i, count)

SpecDay == InitDay /\ [][NextDay]_vars


---------------------------------------------------------------------------
(* A session of App: the handlers of its buttons and of its input field,   *)
(* each enabled where the view offers it.                                  *)

Init ==
    /\ \E now \in SessionClocks :
          challenges = generate_challenges(get_daily_seed(now), PROBLEMS_PER_DAY)
    /\ current_index = 0
    /\ user_input = << >>
    /\ answer_value = Zero
    /\ submitted = FALSE
    /\ score_results = << >>
    /\ input_mode = TRUE
    /\ last_event = "none"
    /\ presses = 0
    /\ edits = 0
    /\ IdleParse /\ IdleScore /\ IdleGen /\ IdleDay

\* score_results.iter().map(|(r, _, _)| r.points()).sum()
RECURSIVE sum_points(_)
sum_points(results) ==
    IF results = << >> THEN 0
    ELSE points(Head(results)[1]) + sum_points(Tail(results))

\* The points of the latest result alone.
total_score_last ==
    IF score_results = << >> THEN 0
    ELSE points(score_results[Len(score_results)][1])

total_score == sum_points(score_results)

is_complete == current_index >= PROBLEMS_PER_DAY

\* challenges.get(current_index)
has_challenge == current_index < Len(challenges)
current_challenge == challenges[current_index + 1]

\* The input section is on the screen.
InputShown == ~is_complete /\ has_challenge /\ ~submitted

\* The buttons "Buttons" and "Type".
set_input_mode(mode) ==
    /\ InputShown
    /\ input_mode' = mode
    /\ last_event' = "mode"
    /\ UNCHANGED << challenges, current_index, user_input, answer_value,
                    submitted, score_results, presses, edits,
                    parse_vars, score_vars, gen_vars, day_vars >>

\* on:input of the text field.
on_input(text) ==
    /\ InputShown
    /\ ~input_mode
    /\ edits < MaxEdits
    /\ user_input' = text
    /\ answer_value' = Zero
    /\ edits' = edits + 1
    /\ last_event' = "input"
    /\ UNCHANGED << challenges, current_index, submitted, score_results,
                    input_mode, presses,
                    parse_vars, score_vars, gen_vars, day_vars >>

\* The value adjust_magnitude leaves in answer_value.
adjusted(v, multiplier) ==
    LET new_val == IF Lt(v, One) THEN Fin(100, 1) ELSE Mul(v, multiplier)
    IN  FMin(FMax(new_val, Zero), MaxAnswerValue)

adjust_magnitude(multiplier) ==
    /\ InputShown
    /\ input_mode
    /\ presses < MaxPresses
    /\ LET val == adjusted(answer_value, multiplier)
       IN  /\ answer_value' = val
           /\ user_input' = IF Ge(val, One) THEN format_answer_display(val)
                            ELSE user_input
    /\ presses' = presses + 1
    /\ last_event' = "adjust"
    /\ UNCHANGED << challenges, current_index, submitted, score_results,
                    input_mode, edits,
                    parse_vars, score_vars, gen_vars, day_vars >>

\* do_submit without its guard on the submitted flag.
do_submit_effect_unguarded ==
    LET user_answer == IF Ge(answer_value, One) THEN Some(answer_value)
                       ELSE parse_answer(user_input)
    IN  IF has_challenge /\ user_answer.some
        THEN LET correct == answer(current_challenge)
                 result == evaluate(user_answer.v, correct)
             IN  /\ score_results' =
                        Append(score_results, << result, user_answer.v, correct >>)
                 /\ submitted' = TRUE
        ELSE UNCHANGED << score_results, submitted >>

\* do_submit that scores an unparseable text as the answer 0.
do_submit_effect_default ==
    LET parsed == parse_answer(user_input)
        user_answer == IF Ge(answer_value, One) THEN answer_value
                       ELSE IF parsed.some THEN parsed.v ELSE Zero
    IN  IF submitted THEN UNCHANGED << score_results, submitted >>
        ELSE IF has_challenge
        THEN LET correct == answer(current_challenge)
                 result == evaluate(user_answer, correct)
             IN  /\ score_results' =
                        Append(score_results, << result, user_answer, correct >>)
                 /\ submitted' = TRUE
        ELSE UNCHANGED << score_results, submitted >>

\* What do_submit does to the results and the flag.
do_submit_effect ==
    LET user_answer == IF Ge(answer_value, One) THEN Some(answer_value)
                       ELSE parse_answer(user_input)
    IN  IF submitted THEN UNCHANGED << score_results, submitted >>
        ELSE IF has_challenge /\ user_answer.some
        THEN LET correct == answer(current_challenge)
                 result == evaluate(user_answer.v, correct)
             IN  /\ score_results' =
                        Append(score_results, << result, user_answer.v, correct >>)
                 /\ submitted' = TRUE
        ELSE UNCHANGED << score_results, submitted >>

do_submit ==
    /\ do_submit_effect
    /\ last_event' = "submit"
    /\ UNCHANGED << challenges, current_index, user_input, answer_value,
                    input_mode, presses, edits,
                    parse_vars, score_vars, gen_vars, day_vars >>

\* The button "Next Problem" / "See Results", shown with a result.
do_next ==
    /\ ~is_complete /\ has_challenge /\ submitted
    /\ Len(score_results) > 0
    /\ current_index' = current_index + 1
    /\ user_input' = << >>
    /\ answer_value' = Zero
    /\ submitted' = FALSE
    /\ last_event' = "next"
    /\ UNCHANGED << challenges, score_results, input_mode, presses, edits,
                    parse_vars, score_vars, gen_vars, day_vars >>

Next ==
    \/ \E mode \in BOOLEAN : set_input_mode(mode)
    \/ \E text \in SessionTexts : on_input(text)
    \/ \E multiplier \in Multipliers : adjust_magnitude(multiplier)
    \/ do_submit
    \/ do_next

Spec == Init /\ [][Next]_vars

---------------------------------------------------------------------------
(* Properties of the scoring, under SpecScore *)

\* A positive number: finite and above zero.
Positive(a) == a.k = "fin" /\ a.m > 0

\* |log10(user) - log10(correct)| of two positive numbers, in thousandths.
LogDistance(user, correct) == Abs(Log10(user).v - Log10(correct).v)

\* C1: for every pair of positive values, evaluate maps the distance
\* d = |log10(user) - log10(correct)| to exactly one tier, each threshold
\* inclusive of its upper bound: d <= 0.1 is Exact (100 points), else
\* d <= 0.5 is Close (75), else d <= 1.0 is Partial (25), else Wrong (0).
C1_TierByThreshold ==
    (s_pc = "done" /\ Positive(s_user) /\ Positive(s_correct)) =>
        LET d == LogDistance(s_user, s_correct)
        IN  /\ d <= 100 => (s_result = "Exact" /\ points(s_result) = 100)
            /\ (100 < d /\ d <= 500) => (s_result = "Close" /\ points(s_result) = 75)
            /\ (500 < d /\ d <= 1000) => (s_result = "Partial" /\ points(s_result) = 25)
            /\ 1000 < d => (s_result = "Wrong" /\ points(s_result) = 0)

\* A pair at distance exactly 0.5 has been evaluated, and is Close.
C1_Witness ==
    /\ s_pc = "done" /\ Positive(s_user) /\ Positive(s_correct)
    /\ LogDistance(s_user, s_correct) = 500
    /\ s_result = "Close"

\* C2: if either argument of oom_distance is <= 0 it returns the maximal
\* sentinel distance whatever the other argument is, and evaluate on such a
\* pair returns the tier Wrong, worth 0 points.
C2_NonPositiveIsWrong ==
    (s_pc = "done" /\ (Le(s_user, Zero) \/ Le(s_correct, Zero))) =>
        /\ s_distance = [k |-> "fin", v |-> F64_MAX]
        /\ s_result = "Wrong"
        /\ points(s_result) = 0

\* A non-positive answer to a positive correct value has been scored.
C2_Witness ==
    /\ s_pc = "done"
    /\ Le(s_user, Zero) /\ Positive(s_correct)
    /\ s_distance = [k |-> "fin", v |-> F64_MAX]
    /\ s_result = "Wrong"

---------------------------------------------------------------------------
(* Properties of the parser, under SpecParse *)

\* The text the rules of parse_answer see.
Prepared == to_lowercase(trim(p_input))

\* The first value of a sequence of optional values, None if there is none.
RECURSIVE FirstSome(_)
FirstSome(options) ==
    IF Len(options) = 0 THEN None
    ELSE IF Head(options).some THEN Head(options)
    ELSE FirstSome(Tail(options))

\* C3: for a non-empty prepared input, parse_answer returns the value of the
\* first rule that yields one, in the order scientific, word suffix, letter
\* suffix, caret, plain number, and None only if all five yield nothing;
\* when the text holds an e but is no float literal, the rules 2 to 5 are
\* still tried.
C3_FirstRuleWins ==
    (p_pc = "done" /\ Len(Prepared) > 0) =>
        /\ p_result = FirstSome(<< parse_scientific(Prepared),
                                   parse_word_suffix(Prepared),
                                   parse_letter_suffix(Prepared),
                                   parse_caret_notation(Prepared),
                                   parse_plain(Prepared) >>)
        /\ (contains_char(Prepared, "e") /\ ~F64FromStr(Prepared).some) =>
               p_result = FirstSome(<< parse_word_suffix(Prepared),
                                       parse_letter_suffix(Prepared),
                                       parse_caret_notation(Prepared),
                                       parse_plain(Prepared) >>)

\* A text that holds an e, is no float literal, and was accepted by the
\* letter-suffix rule.
C3_Witness ==
    /\ p_pc = "done"
    /\ contains_char(Prepared, "e")
    /\ ~F64FromStr(Prepared).some
    /\ ~parse_word_suffix(Prepared).some
    /\ parse_letter_suffix(Prepared).some
    /\ p_result = parse_letter_suffix(Prepared)

\* The trigger conditions of the rules 2 to 4.
WordTrigger(input) ==
    \E i \in 1 .. Len(WordSuffixes) : ends_with(input, WordSuffixes[i].suffix)
LetterTrigger(input) == Len(input) > 0 /\ IsLetterSuffix(input[Len(input)])
CaretTrigger(input) == contains(caret_normalize(input), CaretMark)

\* C9: once the trigger of the word-suffix rule, of the letter-suffix rule
\* or of the caret rule is met and that rule fails to parse its number
\* part(s), no later rule produces a value: parse_answer returns None.
C9_TriggeredRuleFails ==
    (p_pc = "done" /\ Len(Prepared) > 0) =>
        /\ (WordTrigger(Prepared) /\ ~parse_word_suffix(Prepared).some)
               => p_result = None
        /\ (LetterTrigger(Prepared) /\ ~parse_letter_suffix(Prepared).some)
               => p_result = None
        /\ (CaretTrigger(Prepared) /\ ~parse_caret_notation(Prepared).some)
               => p_result = None

\* A text that ends in a suffix letter, whose part before the letter is no
\* float only because of a comma: the letter-suffix rule failed, the plain
\* rule would have read the digits, and the result is None.
C9_Witness ==
    /\ p_pc = "done"
    /\ LetterTrigger(Prepared)
    /\ ~parse_letter_suffix(Prepared).some
    /\ contains_char(Prepared, ",")
    /\ parse_plain(SubSeq(Prepared, 1, Len(Prepared) - 1)).some
    /\ p_result = None

\* The literals of the supported notations: digits with at most one point
\* and at least one digit, an optional sign in front, an optional exponent
\* behind; and an integer, digits behind an optional sign.
IsDecimalLiteral(s) ==
    LET body == Unsigned(s)
        dot  == find(body, << "." >>, 1)
        ip   == IF dot = 0 THEN body ELSE SubSeq(body, 1, dot - 1)
        fp   == IF dot = 0 THEN << >> ELSE SubSeq(body, dot + 1, Len(body))
    IN  AllDigits(ip) /\ AllDigits(fp) /\ Len(ip) + Len(fp) >= 1

IsIntLiteral(s) == Len(Unsigned(s)) >= 1 /\ AllDigits(Unsigned(s))

IsNumberLiteral(s) ==
    LET ePos == find(s, << "e" >>, 1)
    IN  IF ePos = 0 THEN IsDecimalLiteral(s)
        ELSE /\ IsDecimalLiteral(SubSeq(s, 1, ePos - 1))
             /\ IsIntLiteral(SubSeq(s, ePos + 1, Len(s)))

\* The input is written in one of the five supported notations.
MatchesNotation(input) ==
    \/ contains_char(input, "e") /\ IsNumberLiteral(input)
    \/ \E i \in 1 .. Len(WordSuffixes) :
          /\ ends_with(input, WordSuffixes[i].suffix)
          /\ IsNumberLiteral(trim(SubSeq(input, 1,
                                  Len(input) - Len(WordSuffixes[i].suffix))))
    \/ /\ LetterTrigger(input)
       /\ IsNumberLiteral(trim(SubSeq(input, 1, Len(input) - 1)))
    \/ LET parts == split(caret_normalize(input), CaretMark)
       IN  Len(parts) = 2 /\ IsNumberLiteral(parts[1]) /\ IsIntLiteral(parts[2])
    \/ IsNumberLiteral(replace(replace(input, ",", << >>), " ", << >>))

\* C10: parse_answer returns None for the empty string, for an input of
\* blanks only, and for every input that is written in none of the five
\* supported notations, such as a bare word.
C10_NoneUnlessNotation ==
    p_pc = "done" =>
        /\ Len(Prepared) = 0 => p_result = None
        /\ ~MatchesNotation(Prepared) => p_result = None

---------------------------------------------------------------------------
(* Properties of the generator, under SpecGen and SpecDay *)

SameDate(a, b) == a.year = b.year /\ a.month = b.month /\ a.day = b.day

\* C6: challenge generation is a function of the calendar date and of the
\* count alone: two loads with the same date and the same count have the
\* same seed and the same sequence of challenges, whatever the time of day
\* and whatever was loaded before.
C6_SameDateSameChallenges ==
    \A i \in Loads, j \in Loads :
        (d_loaded[i] /\ d_loaded[j] /\ SameDate(d_at[i], d_at[j])
             /\ d_count[i] = d_count[j])
        => (d_seed[i] = d_seed[j] /\ d_out[i] = d_out[j])

\* Two loads on the same date at different hours, both of at least one
\* challenge, with equal sequences.
C6_Witness ==
    /\ d_loaded[1] /\ d_loaded[2]
    /\ SameDate(d_at[1], d_at[2])
    /\ d_at[1].hour # d_at[2].hour
    /\ d_count[1] = d_count[2] /\ d_count[1] >= 1
    /\ d_out[1] = d_out[2]

\* The operand is mantissa * 10^exponent with an exponent in 3 .. 9 and a
\* mantissa that is one of 1.1, 1.2, .. , 9.9.
IsOperand(num) ==
    \E exponent \in 3 .. 9, tenths \in 11 .. 99 : num = Fin(tenths * 10, exponent - 2)

\* C7: every operand of every generated challenge is mantissa * 10^exponent
\* with the exponent an integer in [3, 9] and the mantissa a multiple of 0.1
\* in [1.1, 9.9]; so both operands are positive and answer() is a positive
\* number, never a division by zero.
C7_OperandsInRange ==
    g_pc = "done" =>
        \A i \in 1 .. Len(g_out) :
            /\ IsOperand(g_out[i].num1)
            /\ IsOperand(g_out[i].num2)
            /\ Positive(g_out[i].num1)
            /\ Positive(g_out[i].num2)
            /\ Positive(answer(g_out[i]))

\* A generated division whose divisor has the largest mantissa, 9.9.
C7_Witness ==
    /\ g_pc = "done"
    /\ \E i \in 1 .. Len(g_out) :
          /\ g_out[i].is_division
          /\ g_out[i].num2.m = 990
          /\ Positive(answer(g_out[i]))

\* C8: generate_challenges returns exactly count challenges for every seed
\* and count; a count of 0 gives the empty sequence.
C8_ExactlyCount ==
    g_pc = "done" =>
        /\ Len(g_out) = g_count
        /\ g_count = 0 => g_out = << >>

\* A call with count 0 has returned the empty sequence.
C8_Witness == g_pc = "done" /\ g_count = 0 /\ g_seed > 0 /\ g_out = << >>

\* The generator of seed after n draws.
RECURSIVE StreamAt(_, _)
StreamAt(seed, n) ==
    IF n = 0 THEN seed_from_u64(seed) ELSE RngStep(StreamAt(seed, n - 1))

\* The operand made of a drawn mantissa and a drawn exponent.
OperandOf(mantissa, exponent) ==
    Mul(Div(Round(Mul(mantissa, Ten)), Ten), Powi10(exponent))

\* Challenge i is made of draws 5(i-1)+1 .. 5(i-1)+5 of the one stream of
\* the seed, in the order exponent and mantissa of num1, exponent and
\* mantissa of num2, is_division.
DrawnInOrder(seed, i, challenge) ==
    LET at(n) == StreamAt(seed, 5 * (i - 1) + n)
    IN  /\ challenge.num1 = OperandOf(gen_range_mantissa(at(1)).val,
                                      gen_range_int(at(0), 3, 9).val)
        /\ challenge.num2 = OperandOf(gen_range_mantissa(at(3)).val,
                                      gen_range_int(at(2), 3, 9).val)
        /\ challenge.is_division = gen_bool(at(4)).val

\* C11: all challenges of a call come from one random stream; each challenge
\* draws num1 (exponent, then mantissa), num2 (exponent, then mantissa) and
\* is_division, in this order and once each, and the draws of challenge i
\* come before those of challenge i+1; so the first k challenges of
\* generate_challenges(seed, n) are the same for every n >= k.
C11_DrawOrderAndPrefix ==
    g_pc = "done" =>
        /\ \A i \in 1 .. Len(g_out) : DrawnInOrder(g_seed, i, g_out[i])
        /\ \A k \in 0 .. g_count :
               generate_challenges(g_seed, k) = SubSeq(g_out, 1, k)

\* A call for the largest count whose challenges differ from one another in
\* both operands, so that a draw taken out of order would show.
C11_Witness ==
    /\ g_pc = "done"
    /\ g_count = MaxCount
    /\ Len(g_out) = MaxCount
    /\ g_out[1].num1 # g_out[1].num2
    /\ g_out[1] # g_out[2]
    /\ generate_challenges(g_seed, 2) = SubSeq(g_out, 1, 2)

\* The two operands of challenge i as mantissa * 10^exponent with the
\* mantissa as drawn, before (mantissa * 10.0).round() / 10.0.
RawOperands(seed, i) ==
    LET at(n) == StreamAt(seed, 5 * (i - 1) + n)
        raw(n) == Mul(gen_range_mantissa(at(n + 1)).val,
                      Powi10(gen_range_int(at(n), 3, 9).val))
    IN  { raw(0), raw(2) }

\* raw < 10^9.9 for a number of three significant digits: 10^9.9 is
\* 7.943.. * 10^9, strictly between 7.94 * 10^9 and 7.95 * 10^9.
BelowTenToNinePointNine(raw) == Le(raw, Fin(794, 7))

\* C12: every operand, taken as mantissa * 10^exponent before the mantissa
\* is rounded, lies in the half-open interval [10^3, 10^9.9).
C12_RawOperandBelowTenToNinePointNine ==
    g_pc = "done" =>
        \A i \in 1 .. Len(g_out) : \A raw \in RawOperands(g_seed, i) :
            Ge(raw, Fin(100, 1)) /\ BelowTenToNinePointNine(raw)

\* C12, amended: every operand, taken as mantissa * 10^exponent before the
\* mantissa is rounded, lies in the half-open interval
\* [1.1 * 10^3, 9.9 * 10^9).
C12_RawOperandInDrawnRange ==
    g_pc = "done" =>
        \A i \in 1 .. Len(g_out) : \A raw \in RawOperands(g_seed, i) :
            Ge(raw, Fin(110, 1)) /\ Lt(raw, Fin(990, 7))

\* A generated challenge with an unrounded operand of 10^9.9 or more, whose
\* rounded operand is in the challenge.
C12_Witness ==
    /\ g_pc = "done"
    /\ \E i \in 1 .. Len(g_out) : \E raw \in RawOperands(g_seed, i) :
          /\ ~BelowTenToNinePointNine(raw)
          /\ Lt(raw, Fin(990, 7))
          /\ DrawnInOrder(g_seed, i, g_out[i])

\* "{year}-{month:02}-{day}": the year, the 1-based month on two digits, the
\* day as it is.
DateStrDayAsIs(date) ==
    IntToStr(date.year) \o << "-" >> \o Pad2(date.month + 1)
        \o << "-" >> \o IntToStr(date.day)

\* "{year}-{month:02}-{day:02}": the year, the 1-based month and the day on
\* two digits each.
DateStrDayPadded(date) ==
    IntToStr(date.year) \o << "-" >> \o Pad2(date.month + 1)
        \o << "-" >> \o Pad2(date.day)

\* C13: the daily seed is the hash of the string "{year}-{month:02}-{day}"
\* of the current date, with the 1-based month padded to two digits and the
\* day not padded; the date is the only input to that string.
C13_SeedOfDayAsIs ==
    \A i \in Loads :
        d_loaded[i] => d_seed[i] = HashBytes(DateStrDayAsIs(d_at[i]), 1, 0)

\* C13, amended: the daily seed is the hash of the string
\* "{year}-{month:02}-{day:02}" of the current date, with the 1-based month
\* and the day both padded to two digits; the date is the only input to
\* that string.
C13_SeedOfDayPadded ==
    \A i \in Loads :
        d_loaded[i] => d_seed[i] = HashBytes(DateStrDayPadded(d_at[i]), 1, 0)

\* A load late on a day below 10, of a month below 10: its seed is that of
\* the padded string and not that of the string with the day as it is.
C13_Witness ==
    \E i \in Loads :
        /\ d_loaded[i]
        /\ d_at[i].day < 10 /\ d_at[i].month + 1 < 10 /\ d_at[i].hour > 0
        /\ d_seed[i] = HashBytes(DateStrDayPadded(d_at[i]), 1, 0)
        /\ d_seed[i] # HashBytes(DateStrDayAsIs(d_at[i]), 1, 0)

---------------------------------------------------------------------------
(* Properties of the session, under Spec *)

\* The length of the results list: one triple per challenge left behind,
\* and one for the current challenge once it is submitted.
ResultsLength ==
    /\ Len(score_results) = current_index + (IF submitted THEN 1 ELSE 0)
    /\ Len(score_results) <= PROBLEMS_PER_DAY
    /\ is_complete => Len(score_results) = PROBLEMS_PER_DAY

\* A step leaves the results list alone, or is a submit of a problem not
\* yet submitted that appends the triple of the tier, the user's answer and
\* the correct answer of the current challenge.
ResultsStep ==
    \/ score_results' = score_results
    \/ /\ last_event' = "submit"
       /\ ~submitted /\ submitted'
       /\ Len(score_results') = Len(score_results) + 1
       /\ SubSeq(score_results', 1, Len(score_results)) = score_results
       /\ LET triple == score_results'[Len(score_results')]
          IN  /\ triple[3] = answer(current_challenge)
              /\ triple[1] = evaluate(triple[2], triple[3])

\* C4: in every reachable state of a session the results list is
\* append-only: a successful submit appends exactly one triple at the end
\* and no action changes or removes an entry; its length is current_index
\* plus 1 if the current problem is submitted, so at most one triple per
\* challenge, never more than N = 5, and exactly N when the session is
\* complete.
C4_ResultsAppendOnly == [](ResultsLength) /\ [][ResultsStep]_vars

\* A complete session: five results, and the index at N.
C4_Witness ==
    /\ is_complete
    /\ Len(score_results) = PROBLEMS_PER_DAY
    /\ current_index = PROBLEMS_PER_DAY

\* C5: when do_submit runs with no usable button value (answer_value < 1)
\* and a text for which parse_answer returns None, no score is recorded and
\* the state of the session is as before: the results, the submitted flag,
\* the index, the text and the button value.
C5_UnparseableNotScored ==
    [][(/\ last_event' = "submit"
        /\ ~Ge(answer_value, One)
        /\ ~parse_answer(user_input).some)
       => (/\ UNCHANGED << score_results, submitted, current_index,
                          user_input, answer_value >>
           /\ (~submitted => ~submitted'))]_vars

\* do_submit has run on a typed text that does not parse, with no button
\* value: the problem is still open and has no result.
C5_Witness ==
    /\ last_event = "submit"
    /\ ~submitted
    /\ ~Ge(answer_value, One)
    /\ Len(user_input) > 0
    /\ ~parse_answer(user_input).some
    /\ Len(score_results) = current_index

---------------------------------------------------------------------------
(* Properties of the magnitude buttons and of the score, under Spec *)

\* C14: after every press of a magnitude button, from any state, the text
\* input holds format_answer_display of the resulting answer_value, so that
\* a submit that follows scores the value of the buttons and never a value
\* left over in the text.
C14_TextSyncedAfterPress ==
    last_event = "adjust" => user_input = format_answer_display(answer_value)

\* The point value of a tier.
PointValue(tier) ==
    CASE tier = "Exact" -> 100
      [] tier = "Close" -> 75
      [] tier = "Partial" -> 25
      [] tier = "Wrong" -> 0

\* The number of recorded results of a tier.
CountOf(tier) ==
    Cardinality({ i \in 1 .. Len(score_results) : score_results[i][1] = tier })

TotalIsSum ==
    /\ total_score = 100 * CountOf("Exact") + 75 * CountOf("Close")
                         + 25 * CountOf("Partial")
    /\ \A i \in 1 .. Len(score_results) :
           points(score_results[i][1]) = PointValue(score_results[i][1])
    /\ total_score % 25 = 0
    /\ total_score <= 100 * Len(score_results)
    /\ total_score <= 500

TotalStep == total_score' >= total_score

\* C15: the running total score is the sum of the point values (100, 75, 25,
\* 0) of the recorded results: it never decreases, it is a multiple of 25,
\* it is at most 100 times the number of recorded results, and at most 500.
C15_TotalScore == [](TotalIsSum) /\ [][TotalStep]_vars

\* A session with a result of no points and a result with points: the total
\* is positive and below 100 times the number of results.
C15_Witness ==
    /\ Len(score_results) >= 2
    /\ \E i \in 1 .. Len(score_results) : score_results[i][1] = "Wrong"
    /\ \E i \in 1 .. Len(score_results) : score_results[i][1] # "Wrong"
    /\ total_score > 0
    /\ total_score < 100 * Len(score_results)

====
